---- MODULE Spec2Model ----
(***************************************************************************)
(* Device-identity binding and verification subsystem of the backend:      *)
(* MACAddressSniffer (checksum and verification engine), MACManager (the   *)
(* binding registry and the audit log, over the remote row store) and      *)
(* MACVerificationMiddleware (the request-time enforcement gate).          *)
(*                                                                         *)
(* Python strings are sequences of one-character strings, so that          *)
(* concatenation, replace(":", "") and upper() are computed as the code    *)
(* computes them.  Python's None and "" are both falsy; a string-valued    *)
(* None is written <<>> and an absent row id is written 0.                 *)
(***************************************************************************)
EXTENDS Integers, Sequences, FiniteSets, TLC

(***************************************************************************)
(* Bounds of the model.                                                    *)
(***************************************************************************)
MaxOps == 3     \* calls started in one behaviour
MaxLen == 2     \* length of the identifiers drawn for the pure functions

\* the worker slots: two calls can run at the same time
Procs == {1, 2}

(***************************************************************************)
(* Strings.                                                                *)
(***************************************************************************)
None == <<>>

Truthy(s) == s # None

\* str.upper() on one character of the alphabet the model draws from
UpperChar(c) ==
    CASE c = "a" -> "A"
      [] c = "b" -> "B"
      [] c = "c" -> "C"
      [] c = "d" -> "D"
      [] c = "e" -> "E"
      [] c = "f" -> "F"
      [] OTHER -> c

RECURSIVE Upper(_)
Upper(s) == IF s = <<>> THEN <<>> ELSE <<UpperChar(Head(s))>> \o Upper(Tail(s))

\* str.replace(":", "")
RECURSIVE StripColons(_)
StripColons(s) ==
    IF s = <<>> THEN <<>>
    ELSE IF Head(s) = ":" THEN StripColons(Tail(s))
    ELSE <<Head(s)>> \o StripColons(Tail(s))

\* mac.replace(":", "").upper()
Normalize(mac) == Upper(StripColons(mac))

\* hashlib.sha256(text.encode()).hexdigest(): a collision-free digest of text
Sha256Hex(text) == [alg |-> "sha256", of |-> text]

NoChecksum == Sha256Hex(<<"?">>)

\* mutant: the secret is left out of the hashed text
generate_checksum_NoSecret(mac, user_id, secret_key) ==
    Sha256Hex(mac \o <<"|">> \o user_id)

generate_checksum(mac, user_id, secret_key) ==
    LET combined == mac \o <<"|">> \o user_id \o <<"|">> \o secret_key
    IN  Sha256Hex(combined)

\* mutant: the stored checksum is not compared
Sniffer_verify_mac_IdentifierOnly(current_mac, stored_mac, stored_checksum, user_id, secret_key) ==
    Normalize(current_mac) = Normalize(stored_mac)

\* mutant: the digest is recomputed from the normalized identifier
Sniffer_verify_mac_NormalizedDigest(current_mac, stored_mac, stored_checksum, user_id, secret_key) ==
    /\ Normalize(current_mac) = Normalize(stored_mac)
    /\ generate_checksum(Normalize(current_mac), user_id, secret_key) = stored_checksum

Sniffer_verify_mac(current_mac, stored_mac, stored_checksum, user_id, secret_key) ==
    LET current_normalized == Normalize(current_mac)
        stored_normalized == Normalize(stored_mac)
        expected_checksum == generate_checksum(current_mac, user_id, secret_key)
    IN  IF current_normalized # stored_normalized THEN FALSE
        ELSE IF expected_checksum # stored_checksum THEN FALSE
        ELSE TRUE

(***************************************************************************)
(* Process-wide settings.                                                  *)
(***************************************************************************)
MAC_VERIFICATION_KEY == <<"m">>

secret_key == IF Truthy(MAC_VERIFICATION_KEY) THEN MAC_VERIFICATION_KEY ELSE <<"d">>

(***************************************************************************)
(* Inputs of the model.                                                    *)
(***************************************************************************)
Users == {<<"u">>, <<"v">>}

\* what get_system_mac() can return: an identifier, or None
SysMacs == {<<"A", ":", "1">>, <<"A", ":", "2">>}
Captures == SysMacs \cup {None}

\* an environment variable: unset, or set to a value
EnvUnset == [set |-> FALSE, value |-> None]
EnvSet(v) == [set |-> TRUE, value |-> v]
getenv(var) == IF var.set THEN var.value ELSE None

\* URL paths are the sequences of their segments after the leading "/":
\* "/api/v1/chat/send" is <<"api", "v1", "chat", "send">>
SENSITIVE_ROUTES ==
    { <<"api", "v1", "chat">>, <<"api", "v1", "training">>,
      <<"api", "v1", "subscriptions">>, <<"api", "v1", "admin">> }

\* path.startswith(route), route being the segments followed by a "/"
StartsWith(path, route) ==
    /\ Len(path) > Len(route)
    /\ SubSeq(path, 1, Len(route)) = route

is_sensitive(path) == \E route \in SENSITIVE_ROUTES : StartsWith(path, route)

\* Authorization headers: absent, a bearer credential that does not decode
\* (sub is then what its unverified claims say), one that decodes to claims
\* with or without a subject, and a header whose processing raises
NoAuth == [scheme |-> "absent", decodes |-> FALSE, sub |-> None, raises |-> FALSE]
Bearer(decodes, sub) == [scheme |-> "Bearer", decodes |-> decodes, sub |-> sub, raises |-> FALSE]
FaultyAuth == [scheme |-> "Bearer", decodes |-> TRUE, sub |-> None, raises |-> TRUE]

\* security.decode_token: the claims, or None
decode_token(auth) == IF auth.decodes THEN [payload |-> TRUE, sub |-> auth.sub]
                      ELSE [payload |-> FALSE, sub |-> None]

\* mutant: the subject is read from the credential without validating it
get_current_user_id_from_request_Unvalidated(req) ==
    IF req.authorization.raises THEN [raised |-> TRUE, user_id |-> None]
    ELSE IF req.authorization.scheme # "Bearer" THEN [raised |-> FALSE, user_id |-> None]
    ELSE [raised |-> FALSE, user_id |-> req.authorization.sub]

\* security.get_current_user_id_from_request: [raised, user_id]
get_current_user_id_from_request(req) ==
    LET authorization == req.authorization
        payload == decode_token(authorization)
    IN  IF authorization.raises THEN [raised |-> TRUE, user_id |-> None]
        ELSE IF authorization.scheme # "Bearer" THEN [raised |-> FALSE, user_id |-> None]
        ELSE IF ~payload.payload THEN [raised |-> FALSE, user_id |-> None]
        ELSE [raised |-> FALSE, user_id |-> payload.sub]

Request(vercel, method, path, state_user_id, authorization) ==
    [vercel |-> vercel, method |-> method, path |-> path,
     state_user_id |-> state_user_id, authorization |-> authorization]

NoRequest == Request(EnvUnset, "", <<>>, None, NoAuth)

SensitivePath == <<"api", "v1", "chat", "send">>

Authed == Bearer(TRUE, <<"u">>)

Requests ==
    \* a resolvable identity, by environment, method and path
    { Request(EnvSet(<<"1">>), "GET", SensitivePath, None, Authed),
      Request(EnvSet(<<>>), "GET", SensitivePath, None, Authed),
      Request(EnvUnset, "OPTIONS", SensitivePath, None, Authed),
      Request(EnvUnset, "GET", <<"api", "v1", "chat">>, None, Authed),
      Request(EnvUnset, "GET", <<"health">>, None, Authed) }
    \cup
    \* a sensitive request, with every way of carrying an identity or none
    { Request(EnvUnset, "GET", SensitivePath, None, a) :
        a \in {NoAuth, Bearer(FALSE, <<"u">>), Bearer(TRUE, None), FaultyAuth}
              \cup {Bearer(TRUE, u) : u \in Users} }
    \cup
    { Request(EnvUnset, "GET", SensitivePath, <<"v">>, NoAuth) }

(***************************************************************************)
(* Responses of the gate.                                                  *)
(***************************************************************************)
HTTP_403_FORBIDDEN == 403
HTTP_500_INTERNAL_SERVER_ERROR == 500

JSONResponse(status_code, detail) == [status_code |-> status_code, detail |-> detail]

NoResponse == JSONResponse(0, "")
\* what the downstream handler answered (call_next returned)
Downstream == JSONResponse(0, "downstream")
\* call_next raised and the exception left dispatch
Propagated == JSONResponse(0, "exception")

(***************************************************************************)
(* Direct calls of MACAddressSniffer.verify_mac.                           *)
(***************************************************************************)
IdChars == {"a", "A", ":"}

\* the strings over IdChars of length 1..n
RECURSIVE StringsUpTo(_)
StringsUpTo(n) ==
    IF n = 0 THEN {}
    ELSE LET shorter == StringsUpTo(n - 1)
         IN  {<<c>> : c \in IdChars} \cup {<<c>> \o t : c \in IdChars, t \in shorter}

Identifiers == StringsUpTo(MaxLen)
UserIds == {<<"u">>, <<"u", "|", "k">>}
Secrets == {<<"k">>, <<"k", "|", "k">>}

\* the arguments of a call; the stored checksum is the one generate_checksum
\* gave for the triple bound
SniffCall(current_mac, stored_mac, bound, user_id, secret) ==
    [current_mac |-> current_mac, stored_mac |-> stored_mac, bound |-> bound,
     stored_checksum |-> generate_checksum(bound.mac, bound.user_id, bound.secret),
     user_id |-> user_id, secret |-> secret, returned |-> FALSE, result |-> FALSE]

Bound(mac, user_id, secret) == [mac |-> mac, user_id |-> user_id, secret |-> secret]

NoSniff == SniffCall(None, None, Bound(None, None, None), None, None)

SniffCalls ==
    { SniffCall(c, st, Bound(bm, bu, bs), u, s) :
        c \in Identifiers, st \in Identifiers, bm \in Identifiers,
        bu \in UserIds, bs \in Secrets, u \in UserIds, s \in Secrets }

(***************************************************************************)
(* MACAddressSniffer.get_system_mac: what the strategies read and how they *)
(* parse it.                                                               *)
(***************************************************************************)
Digits == {"0", "1", "2", "3", "4", "5", "6", "7", "8", "9"}
LowerHex == {"a", "b", "c", "d", "e", "f"}
UpperHex == {"A", "B", "C", "D", "E", "F"}

\* the character classes of the regular expressions
Class_0_9a_f_colon_IGNORECASE == Digits \cup LowerHex \cup UpperHex \cup {":"}  \* [0-9a-f:] with re.IGNORECASE, [0-9A-Fa-f:]
Class_0_9A_F_colon == Digits \cup UpperHex \cup {":"}                          \* [0-9A-F:]
Class_0_9A_Fa_f == Digits \cup LowerHex \cup UpperHex                          \* [0-9A-Fa-f]

\* class{17} matches text at position i
ClassMatchAt(text, i, class) ==
    /\ i + 16 <= Len(text)
    /\ \A k \in i..(i + 16) : text[k] \in class

\* re.search / re.findall(...)[0] of (class{17}): the leftmost match, or None
FirstClassMatch(text, class) ==
    LET at == {i \in 1..Len(text) : ClassMatchAt(text, i, class)}
    IN  IF at = {} THEN None
        ELSE LET i == CHOOSE j \in at : \A k \in at : j <= k
             IN  SubSeq(text, i, i + 16)

\* keyword\s+(class{17}): text is what follows the keyword and the blanks
PrefixClassMatch(text, class) ==
    IF ClassMatchAt(text, 1, class) THEN SubSeq(text, 1, 17) ELSE None

\* [0-9A-Fa-f]{2}(?:[:-][0-9A-Fa-f]{2}){5} matches text at position i
OctetsMatchAt(text, i) ==
    /\ i + 16 <= Len(text)
    /\ \A k \in 0..16 :
         IF k % 3 = 2 THEN text[i + k] \in {":", "-"}
         ELSE text[i + k] \in Class_0_9A_Fa_f

\* re.search of the pattern of line 84
FirstOctetsMatch(text) ==
    LET at == {i \in 1..Len(text) : OctetsMatchAt(text, i)}
    IN  IF at = {} THEN None
        ELSE LET i == CHOOSE j \in at : \A k \in at : j <= k
             IN  SubSeq(text, i, i + 16)

\* str.replace of one character by another
Replaced(text, old, new) ==
    [i \in 1..Len(text) |-> IF text[i] = old THEN new ELSE text[i]]

\* "%02x" % x
HexDigit(n) ==
    CASE n < 10 -> CHOOSE d \in Digits : d = ToString(n)
      [] n = 10 -> "a" [] n = 11 -> "b" [] n = 12 -> "c"
      [] n = 13 -> "d" [] n = 14 -> "e" [] OTHER -> "f"

Hex02(x) == <<HexDigit(x \div 16), HexDigit(x % 16)>>

\* sep.join(parts)
RECURSIVE Join(_, _)
Join(parts, sep) ==
    IF parts = <<>> THEN <<>>
    ELSE IF Len(parts) = 1 THEN parts[1]
    ELSE parts[1] \o sep \o Join(Tail(parts), sep)

\* an address as the tools print it
EtherLower == Join(<<Hex02(10), Hex02(27), Hex02(44), Hex02(61), Hex02(78), Hex02(95)>>, <<":">>)
\* as getmac.exe prints it: upper case, octets joined by hyphens
EtherGetmac == Upper(Replaced(EtherLower, ":", "-"))
Loopback == Join(<<Hex02(0), Hex02(0), Hex02(0), Hex02(0), Hex02(0), Hex02(0)>>, <<":">>)
NoAddress == <<"n", "/", "a">>

\* the parsers of the strategies ----------------------------------------

\* lines 76-93: lines of the csv output; the first data line holds the address
ParseGetmac(lines) ==
    IF Len(lines) < 2 THEN None
    ELSE Upper(FirstOctetsMatch(lines[2]))

\* lines 116-132: the entries of ip link show, interface name and link line
RECURSIVE ParseIpLink(_)
ParseIpLink(entries) ==
    IF entries = <<>> THEN None
    ELSE LET e == Head(entries)
             mac_match == IF e.link = "ether"
                          THEN PrefixClassMatch(e.addr, Class_0_9a_f_colon_IGNORECASE)
                          ELSE None
         IN  IF Truthy(mac_match) /\ e.name # "lo" THEN Upper(mac_match)
             ELSE ParseIpLink(Tail(entries))

\* lines 160-172 and 292-304: the address files; readable FALSE: open raises
RECURSIVE ParseAddressFiles(_)
ParseAddressFiles(files) ==
    IF files = <<>> THEN None
    ELSE LET f == Head(files)
             mac == Upper(f.content)
         IN  IF /\ f.readable
                /\ Truthy(mac)
                /\ Len(mac) = 17
                /\ ClassMatchAt(mac, 1, Class_0_9A_F_colon)
             THEN mac
             ELSE ParseAddressFiles(Tail(files))

\* lines 292-295: the interfaces of /proc/net/dev but lo
RECURSIVE NotLo(_)
NotLo(files) ==
    IF files = <<>> THEN <<>>
    ELSE IF Head(files).name = "lo" THEN NotLo(Tail(files))
    ELSE <<Head(files)>> \o NotLo(Tail(files))

\* lines 191-196, 213-218, 351-356
ParseFindall(text) == Upper(FirstClassMatch(text, Class_0_9a_f_colon_IGNORECASE))

\* lines 268-273 and 324-330: text follows the keyword (ether, Address:)
ParseKeyword(text) == Upper(PrefixClassMatch(text, Class_0_9a_f_colon_IGNORECASE))

\* lines 245-250: the six bytes the ioctl returns
ParseIoctl(bytes) == Upper(Join([i \in 1..Len(bytes) |-> Hex02(bytes[i])], <<":">>))

\* line 381: hashlib.sha256(fingerprint_base.encode()).hexdigest()[:12], the
\* digits SHA-256 gives for each fingerprint the model draws
HexDigest12(fingerprint_base) ==
    CASE fingerprint_base = <<"h", "-", "serverless">> ->
             <<"6", "e", "5", "9", "0", "2", "b", "9", "0", "5", "0", "2">>
      [] fingerprint_base = <<"h", "-", "d">> ->
             <<"d", "8", "a", "c", "9", "9", "1", "a", "8", "1", "8", "8">>
      [] fingerprint_base = <<"h", "-", "f">> ->
             <<"8", "1", "7", "3", "f", "5", "5", "b", "a", "1", "b", "2">>
      [] fingerprint_base = <<"g", "-", "serverless">> ->
             <<"e", "8", "6", "9", "8", "9", "0", "a", "3", "7", "0", "f">>
      [] fingerprint_base = <<"g", "-", "d">> ->
             <<"9", "7", "5", "a", "a", "2", "2", "8", "5", "e", "3", "f">>
      [] fingerprint_base = <<"g", "-", "f">> ->
             <<"e", "a", "b", "f", "c", "2", "e", "c", "6", "7", "e", "e">>

\* line 379: the environment fingerprint
FingerprintBase(env) ==
    LET suffix == IF Truthy(env.vercel_deployment_id) THEN env.vercel_deployment_id
                  ELSE IF Truthy(env.aws_lambda_function) THEN env.aws_lambda_function
                  ELSE <<"serverless">>
    IN  env.hostname \o <<"-">> \o suffix

\* lines 381-383 with the deployment and function identifiers left out
ParseFingerprint_HostOnly(env) ==
    LET h == HexDigest12(env.hostname \o <<"-">> \o <<"serverless">>)
    IN  Upper(Join(<<SubSeq(h, 1, 2), SubSeq(h, 3, 4), SubSeq(h, 5, 6),
                     SubSeq(h, 7, 8), SubSeq(h, 9, 10), SubSeq(h, 11, 12)>>, <<":">>))

\* lines 379-383
ParseFingerprint(env) ==
    LET h == HexDigest12(FingerprintBase(env))
    IN  Upper(Join(<<SubSeq(h, 1, 2), SubSeq(h, 3, 4), SubSeq(h, 5, 6),
                     SubSeq(h, 7, 8), SubSeq(h, 9, 10), SubSeq(h, 11, 12)>>, <<":">>))

\* what the environment can answer to the strategies -------------------
Systems == {"Windows", "Linux", "Darwin", "FreeBSD"}

Lo == [name |-> "lo", link |-> "loopback", addr |-> Loopback]
Eth0 == [name |-> "eth0", link |-> "ether", addr |-> EtherLower \o <<" ">>]

LoFile == [name |-> "lo", readable |-> TRUE, content |-> Loopback]
Eth0File == [name |-> "eth0", readable |-> TRUE, content |-> EtherLower]
LockedFile == [name |-> "eth0", readable |-> FALSE, content |-> None]

GetmacOutputs ==
    { << <<"h">>, <<"\"">> \o EtherGetmac \o <<"\"">> >>,
      << <<"h">>, <<"\"">> \o NoAddress \o <<"\"">> >>,
      << <<>> >> }
IpLinkOutputs == { <<Lo, Eth0>>, <<Lo>> }
AddressFiles ==
    { <<LoFile, Eth0File>>, <<LoFile>>, <<Eth0File>>, <<LockedFile>>,
      <<LockedFile, Eth0File>>, <<>> }
TextOutputs ==
    { <<"?", " ">> \o EtherLower \o <<" ">>, Upper(EtherLower), NoAddress, <<>> }
KeywordOutputs == { EtherLower \o <<" ">>, NoAddress, <<>> }
IoctlOutputs == { <<10, 27, 44, 61, 78, 95>>, <<0, 255, 9, 16, 160, 1>> }
PopenOutputs ==
    { <<"l", " ">> \o Loopback \o <<" ">> \o EtherLower, EtherLower, <<>> }
\* lines 376-378: HOSTNAME (or platform.node()), VERCEL_DEPLOYMENT_ID,
\* AWS_LAMBDA_FUNCTION_NAME
FingerprintEnvs ==
    [hostname : {<<"h">>, <<"g">>},
     vercel_deployment_id : {<<>>, <<"d">>},
     aws_lambda_function : {<<>>, <<"f">>}]

\* how an attempt ends: it yields output, raises, or never returns
CommandEnds == {"output", "FileNotFoundError", "hang", "Exception"}
FileEnds == {"output", "FileNotFoundError", "Exception"}
CallEnds == {"output", "Exception"}
PopenEnds == {"output", "hang", "Exception"}

\* the except clauses of each function
Handlers(name) ==
    CASE name \in {"_get_mac_windows", "_get_mac_linux", "_get_mac_macos"} ->
            {"TimeoutExpired", "FileNotFoundError", "Exception"}
      [] name \in {"_get_mac_linux_arp", "_get_mac_linux_proc", "_get_mac_python_ifconfig"} ->
            {"FileNotFoundError", "Exception"}
      [] name = "get_system_mac" -> {"MACSnifferError", "Exception"}
      [] OTHER -> {"Exception"}

\* mutant: a clause catches only the class it names
Caught_ExactOnly(name, exc) == exc \in Handlers(name)

\* whether the function's except clauses catch exc: every class the model
\* raises is a subclass of Exception
Caught(name, exc) == exc \in Handlers(name) \/ "Exception" \in Handlers(name)

\* timeout=5 in the invocation of the external command
HasTimeout(name) ==
    name \in {"_get_mac_windows", "_get_mac_linux", "_get_mac_linux_arp",
              "_get_mac_python_ifconfig", "_get_mac_macos"}

\* the branch of get_system_mac (lines 50-57)
FirstStrategy(system) ==
    CASE system = "Windows" -> "_get_mac_windows"
      [] system = "Linux" -> "_get_mac_linux"
      [] system = "Darwin" -> "_get_mac_macos"
      [] OTHER -> "_get_mac_networkinterfaces"

\* mutant: the arp command is tried before /sys/class/net
NextStrategy_ArpFirst(name) ==
    CASE name = "_get_mac_linux" -> "_get_mac_linux_arp"
      [] name = "_get_mac_linux_arp" -> "_get_mac_linux_sysfs"
      [] name = "_get_mac_linux_sysfs" -> "_get_mac_linux_proc"
      [] name = "_get_mac_linux_proc" -> "_get_mac_python_socket"
      [] name = "_get_mac_python_socket" -> "_get_mac_python_ifconfig"
      [] name = "_get_mac_python_ifconfig" -> "_get_mac_proc_net_dev"
      [] name = "_get_mac_serverless_fallback" -> ""
      [] OTHER -> "_get_mac_serverless_fallback"

\* the function each strategy hands over to when it has no address
NextStrategy(name) ==
    CASE name = "_get_mac_linux" -> "_get_mac_linux_sysfs"
      [] name = "_get_mac_linux_sysfs" -> "_get_mac_linux_arp"
      [] name = "_get_mac_linux_arp" -> "_get_mac_linux_proc"
      [] name = "_get_mac_linux_proc" -> "_get_mac_python_socket"
      [] name = "_get_mac_python_socket" -> "_get_mac_python_ifconfig"
      [] name = "_get_mac_python_ifconfig" -> "_get_mac_proc_net_dev"
      [] name = "_get_mac_serverless_fallback" -> ""
      [] OTHER -> "_get_mac_serverless_fallback"

(***************************************************************************)
(* State.                                                                  *)
(***************************************************************************)
VARIABLES
    bindings,   \* table mac_address_bindings: row i has id i
    log,        \* table mac_verification_log, in insertion order
    profiles,   \* ids of the rows of table profiles
    procs,      \* the call each worker slot is running, and its locals
    ops,        \* calls started so far
    sniff,      \* a direct call of MACAddressSniffer.verify_mac: arguments, result
    capture     \* a call of MACAddressSniffer.get_system_mac: its call stack and result

vars == <<bindings, log, profiles, procs, ops, sniff, capture>>

\* a row of mac_address_bindings as the insert of capture_and_bind_mac makes it
NewBinding(user_id, mac, checksum) ==
    [user_id |-> user_id, mac_address |-> mac, mac_checksum |-> checksum,
     is_active |-> TRUE, verification_count |-> 0, failed_verification_count |-> 0]

\* a row as a select returns it: the columns and the id
Selected(i) ==
    [id |-> i, user_id |-> bindings[i].user_id,
     mac_address |-> bindings[i].mac_address,
     mac_checksum |-> bindings[i].mac_checksum,
     is_active |-> bindings[i].is_active,
     verification_count |-> bindings[i].verification_count,
     failed_verification_count |-> bindings[i].failed_verification_count]

\* no row (None)
NoBinding ==
    [id |-> 0, user_id |-> None, mac_address |-> None, mac_checksum |-> NoChecksum,
     is_active |-> FALSE, verification_count |-> 0, failed_verification_count |-> 0]

\* select("*").eq("user_id", user_id).eq("is_active", True): the matching ids
ActiveIds(user_id) ==
    {i \in 1..Len(bindings) : bindings[i].user_id = user_id /\ bindings[i].is_active}

\* the entry _log_verification inserts
LogEntry(user_id, binding_id, mac_address, expected_mac, success, error_message) ==
    [user_id |-> user_id, binding_id |-> binding_id, mac_address |-> mac_address,
     expected_mac |-> expected_mac,
     verification_status |-> IF success THEN "success" ELSE "failed",
     checksum_match |-> success, error_message |-> error_message]

IdleProc ==
    [op |-> "none", pc |-> "idle", user_id |-> None, mac |-> None,
     binding |-> NoBinding, req |-> NoRequest, reason |-> "", verified |-> FALSE,
     response |-> NoResponse, ret |-> "",
     \* history of a gate request: verify_mac was called, a step of it failed
     \* unexpectedly, and the two tables as they were when dispatch began
     called |-> FALSE, fault |-> FALSE, len0 |-> 0, rows0 |-> <<>>]

Idle(p) == procs[p].pc = "idle"

\* get_system_mac has not been called
NoCapture ==
    [pc |-> "idle", system |-> "", strategy |-> "", stack |-> <<>>, tried |-> <<>>,
     result |-> None, by |-> ""]

\* a call starts in the first free slot; seq: only when no other call is running
CanStart(p, seq) ==
    /\ Idle(p)
    /\ \A q \in Procs : q < p => ~Idle(q)
    /\ ops < MaxOps
    /\ seq => \A q \in Procs : Idle(q)

\* the store is empty and no call is running
Registry0 ==
    /\ bindings = <<>>
    /\ log = <<>>
    /\ profiles = {}
    /\ procs = [p \in Procs |-> IdleProc]
    /\ ops = 0

Init ==
    /\ Registry0
    /\ sniff = NoSniff
    /\ capture = NoCapture

(***************************************************************************)
(* MACManager.capture_and_bind_mac                                         *)
(***************************************************************************)
\* the token response of register and login (auth.py lines 88-99, 160-171)
TokenResponse == [status_code |-> 200, detail |-> "access_token"]

\* mutant: the account action fails when no binding was stored
AccountResponse_Blocking(mac_binding) ==
    IF mac_binding = "None" THEN JSONResponse(400, "Registration failed")
    ELSE TokenResponse

\* auth.py lines 84-88 and 154-160: register and login go on to the token
\* response whatever capture_and_bind_mac returned
AccountResponse(mac_binding) == TokenResponse

\* lines 50-65: make sure the user has a profile row; a store fault at the
\* lookup or at the insert is swallowed at line 64
EnsureProfile(rows, user_id, select_ok, insert_ok) ==
    IF select_ok /\ user_id \notin rows /\ insert_ok
    THEN rows \cup {user_id} ELSE rows

\* lines 32-65: capture the identifier, then ensure the profile
capture_and_bind_mac(p, user_id, mac, select_ok, insert_ok, seq) ==
    /\ CanStart(p, seq)
    /\ ops' = ops + 1
    /\ IF ~Truthy(mac)
       THEN /\ procs' = [procs EXCEPT ![p] =
                    [IdleProc EXCEPT !.op = "capture", !.pc = "done",
                                     !.user_id = user_id, !.ret = "None",
                                     !.response = AccountResponse("None")]]
            /\ UNCHANGED profiles
       ELSE /\ procs' = [procs EXCEPT ![p] =
                    [IdleProc EXCEPT !.op = "capture", !.pc = "get_active_binding",
                                     !.user_id = user_id, !.mac = mac]]
            /\ profiles' = EnsureProfile(profiles, user_id, select_ok, insert_ok)
    /\ UNCHANGED <<capture, sniff, bindings, log>>

\* mutant: the lookup does not filter on is_active
get_active_binding_AnyRow(user_id, ok) ==
    LET ids == {i \in 1..Len(bindings) : bindings[i].user_id = user_id}
    IN  IF ok /\ ids # {} THEN {Selected(i) : i \in ids} ELSE {NoBinding}

\* mutant: the lookup filters on is_active = False
get_active_binding_Inactive(user_id, ok) ==
    LET ids == {i \in 1..Len(bindings) :
                    bindings[i].user_id = user_id /\ ~bindings[i].is_active}
    IN  IF ok /\ ids # {} THEN {Selected(i) : i \in ids} ELSE {NoBinding}

\* get_active_binding (lines 120-132): one of the user's active rows, or
\* None when there is none or the store call raises
get_active_binding(user_id, ok) ==
    IF ok /\ ActiveIds(user_id) # {}
    THEN {Selected(i) : i \in ActiveIds(user_id)}
    ELSE {NoBinding}

\* line 67
capture_get_active_binding(p, ok) ==
    /\ procs[p].pc = "get_active_binding"
    /\ \E existing \in get_active_binding(procs[p].user_id, ok) :
         procs' = [procs EXCEPT ![p].binding = existing, ![p].pc = "write"]
    /\ UNCHANGED <<capture, sniff, bindings, log, profiles, ops>>

\* mutant: re-binding starts the row's counters afresh
BoundRow_ResetCounters(row, mac, checksum) ==
    [row EXCEPT !.mac_address = mac, !.mac_checksum = checksum, !.is_active = TRUE,
                !.verification_count = 0, !.failed_verification_count = 0]

\* the values capture_and_bind_mac writes
BoundRow(row, mac, checksum) ==
    [row EXCEPT !.mac_address = mac, !.mac_checksum = checksum, !.is_active = TRUE]

\* lines 69-110: update the existing row in place, or insert a new one
capture_write(p, ok) ==
    LET me == procs[p]
        checksum == generate_checksum(me.mac, me.user_id, secret_key)
        existing == me.binding
    IN  /\ me.pc = "write"
        /\ IF ~ok
           THEN /\ procs' = [procs EXCEPT ![p].pc = "done", ![p].ret = "None",
                                          ![p].response = AccountResponse("None")]
                /\ UNCHANGED bindings
           ELSE IF existing.id # 0
           THEN /\ bindings' = [bindings EXCEPT ![existing.id] =
                                    BoundRow(@, me.mac, checksum)]
                /\ procs' = [procs EXCEPT ![p].pc = "done", ![p].ret = "binding",
                                          ![p].response = AccountResponse("binding")]
           ELSE /\ bindings' = Append(bindings, NewBinding(me.user_id, me.mac, checksum))
                /\ procs' = [procs EXCEPT ![p].pc = "done", ![p].ret = "binding",
                                          ![p].response = AccountResponse("binding"),
                                          ![p].binding.id = Len(bindings) + 1]
        /\ UNCHANGED <<capture, sniff, log, profiles, ops>>

(***************************************************************************)
(* MACManager.deactivate_binding                                           *)
(***************************************************************************)
\* mutant: the update has no filter on the id
Deactivated_AllRows(rows, binding_id) ==
    [i \in 1..Len(rows) |-> [rows[i] EXCEPT !.is_active = FALSE]]

\* lines 287-289: update({"is_active": False}).eq("id", binding_id)
Deactivated(rows, binding_id) ==
    [i \in 1..Len(rows) |->
        IF i = binding_id THEN [rows[i] EXCEPT !.is_active = FALSE] ELSE rows[i]]

deactivate_binding(p, binding_id, ok, seq) ==
    /\ CanStart(p, seq)
    /\ ops' = ops + 1
    /\ bindings' = IF ok THEN Deactivated(bindings, binding_id) ELSE bindings
    /\ procs' = [procs EXCEPT ![p] =
            [IdleProc EXCEPT !.op = "deactivate", !.pc = "done",
                             !.binding.id = binding_id, !.fault = ~ok,
                             !.ret = IF ok THEN "True" ELSE "False"]]
    /\ UNCHANGED <<capture, sniff, log, profiles>>

(***************************************************************************)
(* MACVerificationMiddleware.dispatch and MACManager.verify_mac            *)
(***************************************************************************)
\* mutant: the pre-flight method is not exempted
Gate_NoPreflight(req) ==
    LET vercel == getenv(req.vercel)
        resolved == get_current_user_id_from_request(req)
    IN  IF vercel = <<"1">> \/ Truthy(vercel) THEN "call_next"
        ELSE IF ~is_sensitive(req.path) THEN "call_next"
        ELSE IF Truthy(req.state_user_id) THEN "verify_mac"
        ELSE IF resolved.raised THEN "call_next_in_try"
        ELSE IF ~Truthy(resolved.user_id) THEN "call_next_in_try"
        ELSE "verify_mac"

\* lines 33-64 of dispatch: where the request goes before any verification
\*   "call_next"        passed downstream at line 35, 39 or 45
\*   "call_next_in_try" passed downstream at line 60 or 64, inside the try
\*   "verify_mac"       MACManager.verify_mac is called at line 70
Gate(req) ==
    LET vercel == getenv(req.vercel)
        resolved == get_current_user_id_from_request(req)
    IN  IF vercel = <<"1">> \/ Truthy(vercel) THEN "call_next"
        ELSE IF req.method = "OPTIONS" THEN "call_next"
        ELSE IF ~is_sensitive(req.path) THEN "call_next"
        ELSE IF Truthy(req.state_user_id) THEN "verify_mac"
        ELSE IF resolved.raised THEN "call_next_in_try"
        ELSE IF ~Truthy(resolved.user_id) THEN "call_next_in_try"
        ELSE "verify_mac"

\* lines 50-56: the identity verification runs for
GateUser(req) ==
    IF Truthy(req.state_user_id) THEN req.state_user_id
    ELSE get_current_user_id_from_request(req).user_id

dispatch(p, req, seq) ==
    LET start == [IdleProc EXCEPT !.op = "gate", !.req = req, !.len0 = Len(log),
                                  !.rows0 = bindings]
    IN  /\ CanStart(p, seq)
        /\ ops' = ops + 1
        /\ procs' = [procs EXCEPT ![p] =
                IF Gate(req) = "verify_mac"
                THEN [start EXCEPT !.pc = "verify_mac", !.user_id = GateUser(req),
                                   !.called = TRUE]
                ELSE [start EXCEPT !.pc = Gate(req)]]
        /\ UNCHANGED <<capture, sniff, bindings, log, profiles>>

\* mutant: the reason code is echoed to the caller
VerificationFailed_Echo(reason) == JSONResponse(HTTP_403_FORBIDDEN, reason)

\* lines 73-80: the response for a verification that did not succeed
VerificationFailed(reason) ==
    JSONResponse(HTTP_403_FORBIDDEN, "Device verification failed. Please log in again.")

\* lines 89-92
ServiceError == JSONResponse(HTTP_500_INTERNAL_SERVER_ERROR, "Verification service error")

\* lines 71-83 and 94: what dispatch does with the result of verify_mac
Verified(me, verified, reason) ==
    IF ~verified
    THEN [me EXCEPT !.pc = "done", !.verified = FALSE, !.reason = reason,
                    !.ret = "DENY", !.response = VerificationFailed(reason)]
    ELSE [me EXCEPT !.pc = "call_next", !.verified = TRUE, !.reason = reason]

\* verify_mac lines 149-191 and 237-243: look the binding up, capture the
\* current identifier and compare; raised: an exception inside verify_mac
verify_mac(p, ok, current_mac, raised) ==
    /\ procs[p].pc = "verify_mac"
    /\ \E binding \in get_active_binding(procs[p].user_id, ok) :
         LET me == [procs[p] EXCEPT !.binding = binding,
                                    !.fault = ~ok \/ (binding.id # 0 /\ Truthy(current_mac) /\ raised)]
             is_valid == Sniffer_verify_mac(current_mac, binding.mac_address,
                             binding.mac_checksum, me.user_id, secret_key)
         IN  procs' = [procs EXCEPT ![p] =
                 IF binding.id = 0
                 THEN [me EXCEPT !.pc = "log", !.reason = "no_binding"]
                 ELSE IF ~Truthy(current_mac)
                 THEN [me EXCEPT !.pc = "log", !.reason = "capture_failed"]
                 ELSE IF raised
                 THEN Verified(me, FALSE, "verification_error")
                 ELSE [me EXCEPT !.pc = "update_count", !.mac = current_mac,
                                 !.verified = is_valid,
                                 !.reason = IF is_valid THEN "success" ELSE "mac_mismatch"]]
    /\ UNCHANGED <<capture, sniff, bindings, log, profiles, ops>>

\* mutant: a failed verification deactivates the binding
Counted_Deactivating(rows, binding, is_valid) ==
    [rows EXCEPT ![binding.id] =
        IF is_valid
        THEN [@ EXCEPT !.verification_count = binding.verification_count + 1]
        ELSE [@ EXCEPT !.failed_verification_count =
                            binding.failed_verification_count + 1,
                       !.is_active = FALSE]]

\* mutant: a success is counted as a failure
Counted_AsFailure(rows, binding, is_valid) ==
    [rows EXCEPT ![binding.id].failed_verification_count =
                        binding.failed_verification_count + 1]

\* the counter updates of lines 196-200 and 219-221, on the row as it was read
Counted(rows, binding, is_valid) ==
    [rows EXCEPT ![binding.id] =
        IF is_valid
        THEN [@ EXCEPT !.verification_count = binding.verification_count + 1]
        ELSE [@ EXCEPT !.failed_verification_count =
                            binding.failed_verification_count + 1]]

\* lines 193-203 and 216-223; a store fault is swallowed
update_count(p, ok) ==
    /\ procs[p].pc = "update_count"
    /\ bindings' = IF ok THEN Counted(bindings, procs[p].binding, procs[p].verified)
                   ELSE bindings
    /\ procs' = [procs EXCEPT ![p].pc = "log"]
    /\ UNCHANGED <<capture, sniff, log, profiles, ops>>

\* mutant: a mismatch is logged as a success
AuditEntry_Success(me) ==
    LogEntry(me.user_id, me.binding.id, me.mac, me.binding.mac_address, TRUE, "")

\* the audit entry verify_mac hands to _log_verification (lines 154, 171, 206, 226)
AuditEntry(me) ==
    CASE me.reason = "no_binding" ->
            LogEntry(me.user_id, 0, None, None, FALSE, "No active binding found")
      [] me.reason = "capture_failed" ->
            LogEntry(me.user_id, me.binding.id, None, me.binding.mac_address, FALSE,
                     "Failed to capture current MAC")
      [] me.reason = "success" ->
            LogEntry(me.user_id, me.binding.id, me.mac, me.binding.mac_address, TRUE, "")
      [] OTHER ->
            LogEntry(me.user_id, me.binding.id, me.mac, me.binding.mac_address, FALSE,
                     "MAC mismatch")

\* mutant: only successful verifications are logged
_log_verification_SuccessOnly(p, ok) ==
    /\ procs[p].pc = "log"
    /\ log' = IF ok /\ procs[p].verified THEN Append(log, AuditEntry(procs[p])) ELSE log
    /\ procs' = [procs EXCEPT ![p] = Verified(@, @.verified, @.reason)]
    /\ UNCHANGED <<capture, sniff, bindings, profiles, ops>>

\* mutant: a failed insert into the log fails the verification
_log_verification_Failing(p, ok) ==
    /\ procs[p].pc = "log"
    /\ log' = IF ok THEN Append(log, AuditEntry(procs[p])) ELSE log
    /\ procs' = [procs EXCEPT ![p] =
            IF ok THEN Verified(@, @.verified, @.reason)
            ELSE Verified(@, FALSE, "verification_error")]
    /\ UNCHANGED <<capture, sniff, bindings, profiles, ops>>

\* _log_verification (lines 246-268), then the return of verify_mac to dispatch;
\* a store fault is swallowed
_log_verification(p, ok) ==
    /\ procs[p].pc = "log"
    /\ log' = IF ok THEN Append(log, AuditEntry(procs[p])) ELSE log
    /\ procs' = [procs EXCEPT ![p] = Verified(@, @.verified, @.reason)]
    /\ UNCHANGED <<capture, sniff, bindings, profiles, ops>>

\* call_next(request): the downstream handler answers or raises; inside the
\* try of lines 49-92 its exception is caught at line 85
call_next(p, ok) ==
    /\ procs[p].pc \in {"call_next", "call_next_in_try"}
    /\ procs' = [procs EXCEPT ![p].pc = "done", ![p].ret = "ALLOW",
                              ![p].response =
                                  IF ok THEN Downstream
                                  ELSE IF procs[p].pc = "call_next_in_try"
                                  THEN ServiceError ELSE Propagated]
    /\ UNCHANGED <<capture, sniff, bindings, log, profiles, ops>>

\* the call has returned to its caller and the slot is free again
return(p) ==
    /\ procs[p].pc = "done"
    /\ procs' = [procs EXCEPT ![p] = IdleProc]
    /\ UNCHANGED <<capture, sniff, bindings, log, profiles, ops>>

(***************************************************************************)
(* MACAddressSniffer.get_system_mac and its strategies                     *)
(***************************************************************************)
\* lines 45-57: the platform selects the first strategy
get_system_mac(system) ==
    /\ capture.pc = "idle"
    /\ capture' = [capture EXCEPT !.pc = "attempt", !.system = system,
                                  !.strategy = FirstStrategy(system)]
    /\ UNCHANGED <<bindings, log, profiles, procs, ops, sniff>>

\* a function on the stack calls the next strategy, from its try block or
\* from an except clause
Call(c, stack, name, in_try) ==
    [c EXCEPT !.pc = "attempt", !.strategy = NextStrategy(name),
              !.stack = Append(stack, [name |-> name, in_try |-> in_try])]

\* every caller returns what its callee returned, down to get_system_mac
Return(c, name, mac) ==
    [c EXCEPT !.pc = "returned", !.result = mac, !.by = name, !.strategy = ""]

\* exc propagates out of a strategy: the innermost caller that made its call
\* inside its try block and catches exc handles it (it calls its next strategy
\* from the except clause); get_system_mac (lines 58-63) returns None; an
\* exception nothing catches leaves get_system_mac
RECURSIVE Unwind(_, _, _)
Unwind(c, stack, exc) ==
    IF stack = <<>>
    THEN IF Caught("get_system_mac", exc)
         THEN Return(c, "get_system_mac", None)
         ELSE [c EXCEPT !.pc = "raised", !.strategy = ""]
    ELSE LET top == stack[Len(stack)]
             below == SubSeq(stack, 1, Len(stack) - 1)
         IN  IF top.in_try /\ Caught(top.name, exc)
             THEN Call(c, below, top.name, FALSE)
             ELSE Unwind(c, below, exc)

\* one strategy runs: end is how its command, file read or system call ends,
\* mac what it parses from the output
Strategy(name, end, mac) ==
    LET c == [capture EXCEPT !.tried = Append(@, name)]
        exc == IF end = "hang" THEN "TimeoutExpired" ELSE end
    IN  /\ capture.pc = "attempt"
        /\ capture.strategy = name
        /\ capture' =
              IF end = "output"
              THEN IF Truthy(mac) THEN Return(c, name, mac)
                   ELSE Call(c, c.stack, name, TRUE)
              ELSE IF end = "hang" /\ ~HasTimeout(name)
              THEN [c EXCEPT !.pc = "blocked"]
              ELSE IF ~Caught(name, exc) THEN Unwind(c, c.stack, exc)
              ELSE IF NextStrategy(name) = "" THEN Return(c, name, None)
              ELSE Call(c, c.stack, name, FALSE)
        /\ UNCHANGED <<bindings, log, profiles, procs, ops, sniff>>

_get_mac_windows ==
    \E end \in CommandEnds, out \in GetmacOutputs :
        Strategy("_get_mac_windows", end, ParseGetmac(out))

_get_mac_linux ==
    \E end \in CommandEnds, out \in IpLinkOutputs :
        Strategy("_get_mac_linux", end, ParseIpLink(out))

_get_mac_linux_sysfs ==
    \E end \in CallEnds, out \in AddressFiles :
        Strategy("_get_mac_linux_sysfs", end, ParseAddressFiles(out))

_get_mac_linux_arp ==
    \E end \in CommandEnds, out \in TextOutputs :
        Strategy("_get_mac_linux_arp", end, ParseFindall(out))

_get_mac_linux_proc ==
    \E end \in FileEnds, out \in TextOutputs :
        Strategy("_get_mac_linux_proc", end, ParseFindall(out))

_get_mac_python_socket ==
    \E end \in CallEnds, out \in IoctlOutputs :
        Strategy("_get_mac_python_socket", end, ParseIoctl(out))

_get_mac_python_ifconfig ==
    \E end \in CommandEnds, out \in KeywordOutputs :
        Strategy("_get_mac_python_ifconfig", end, ParseKeyword(out))

_get_mac_proc_net_dev ==
    \E end \in FileEnds, out \in AddressFiles :
        Strategy("_get_mac_proc_net_dev", end, ParseAddressFiles(NotLo(out)))

_get_mac_macos ==
    \E end \in CommandEnds, out \in KeywordOutputs :
        Strategy("_get_mac_macos", end, ParseKeyword(out))

_get_mac_networkinterfaces ==
    \E end \in PopenEnds, out \in PopenOutputs :
        Strategy("_get_mac_networkinterfaces", end, ParseFindall(out))

_get_mac_serverless_fallback ==
    \E end \in CallEnds, out \in FingerprintEnvs :
        Strategy("_get_mac_serverless_fallback", end, ParseFingerprint(out))

(***************************************************************************)
(* Specifications.                                                         *)
(***************************************************************************)
\* ids a deactivation is asked for: the rows, and one id that matches no row
BindingIds == 1..(Len(bindings) + 1)

\* the requests that reach MACManager.verify_mac
VerifiedRequests == {r \in Requests : Gate(r) = "verify_mac"}

\* SpecSeq: each call runs to completion before the next starts, and no
\* store call, capture or downstream handler fails unexpectedly
NextSeq ==
    \/ \E p \in Procs, u \in Users, m \in Captures :
            capture_and_bind_mac(p, u, m, TRUE, TRUE, TRUE)
    \/ \E p \in Procs : capture_get_active_binding(p, TRUE)
    \/ \E p \in Procs : capture_write(p, TRUE)
    \/ \E p \in Procs, b \in BindingIds : deactivate_binding(p, b, TRUE, TRUE)
    \/ \E p \in Procs, r \in Requests : dispatch(p, r, TRUE)
    \/ \E p \in Procs, m \in Captures : verify_mac(p, TRUE, m, FALSE)
    \/ \E p \in Procs : update_count(p, TRUE)
    \/ \E p \in Procs : _log_verification(p, TRUE)
    \/ \E p \in Procs : call_next(p, TRUE)
    \/ \E p \in Procs : return(p)

SpecSeq == Init /\ [][NextSeq]_vars

\* SpecFaults: each call runs to completion before the next starts; every
\* store call can raise, verify_mac can raise, the downstream handler can raise
NextFaults ==
    \/ \E p \in Procs, u \in Users, m \in Captures, s \in BOOLEAN, i \in BOOLEAN :
            capture_and_bind_mac(p, u, m, s, i, TRUE)
    \/ \E p \in Procs, ok \in BOOLEAN : capture_get_active_binding(p, ok)
    \/ \E p \in Procs, ok \in BOOLEAN : capture_write(p, ok)
    \/ \E p \in Procs, b \in BindingIds, ok \in BOOLEAN : deactivate_binding(p, b, ok, TRUE)
    \/ \E p \in Procs, r \in Requests : dispatch(p, r, TRUE)
    \/ \E p \in Procs, ok \in BOOLEAN, m \in Captures, x \in BOOLEAN : verify_mac(p, ok, m, x)
    \/ \E p \in Procs, ok \in BOOLEAN : update_count(p, ok)
    \/ \E p \in Procs, ok \in BOOLEAN : _log_verification(p, ok)
    \/ \E p \in Procs, ok \in BOOLEAN : call_next(p, ok)
    \/ \E p \in Procs : return(p)

SpecFaults == Init /\ [][NextFaults]_vars

\* SpecConc: calls of different workers interleave at their store calls;
\* nothing fails, and the requests are those that reach the store
NextConc ==
    \/ \E p \in Procs, u \in Users, m \in Captures :
            capture_and_bind_mac(p, u, m, TRUE, TRUE, FALSE)
    \/ \E p \in Procs : capture_get_active_binding(p, TRUE)
    \/ \E p \in Procs : capture_write(p, TRUE)
    \/ \E p \in Procs, b \in BindingIds : deactivate_binding(p, b, TRUE, FALSE)
    \/ \E p \in Procs, r \in VerifiedRequests : dispatch(p, r, FALSE)
    \/ \E p \in Procs, m \in Captures : verify_mac(p, TRUE, m, FALSE)
    \/ \E p \in Procs : update_count(p, TRUE)
    \/ \E p \in Procs : _log_verification(p, TRUE)
    \/ \E p \in Procs : call_next(p, TRUE)
    \/ \E p \in Procs : return(p)

SpecConc == Init /\ [][NextConc]_vars

\* SpecSniffer: MACAddressSniffer.verify_mac called on arguments of every shape
InitSniffer ==
    /\ Registry0
    /\ sniff \in {c \in SniffCalls : c.bound.mac \in {c.current_mac, c.stored_mac}}
    /\ capture = NoCapture

apply_verify_mac ==
    /\ ~sniff.returned
    /\ sniff' = [sniff EXCEPT !.returned = TRUE,
                              !.result = Sniffer_verify_mac(sniff.current_mac,
                                  sniff.stored_mac, sniff.stored_checksum,
                                  sniff.user_id, sniff.secret)]
    /\ UNCHANGED <<capture, bindings, log, profiles, procs, ops>>

NextSniffer == apply_verify_mac

SpecSniffer == InitSniffer /\ [][NextSniffer]_vars

\* SpecVerify: user u is bound (capture_and_bind_mac has run once for u);
\* verifications served by different workers interleave at their store calls
InitBound ==
    /\ bindings = <<NewBinding(<<"u">>, <<"A", ":", "1">>,
                        generate_checksum(<<"A", ":", "1">>, <<"u">>, secret_key))>>
    /\ log = <<>>
    /\ profiles = {<<"u">>}
    /\ procs = [p \in Procs |-> IdleProc]
    /\ ops = 0
    /\ sniff = NoSniff
    /\ capture = NoCapture

NextVerify ==
    \/ \E p \in Procs, r \in VerifiedRequests : dispatch(p, r, FALSE)
    \/ \E p \in Procs, m \in Captures : verify_mac(p, TRUE, m, FALSE)
    \/ \E p \in Procs : update_count(p, TRUE)
    \/ \E p \in Procs : _log_verification(p, TRUE)
    \/ \E p \in Procs : call_next(p, TRUE)
    \/ \E p \in Procs : return(p)

SpecVerify == InitBound /\ [][NextVerify]_vars

\* SpecCapture: one call of get_system_mac on every platform, each strategy
\* ending in every way
NextCapture ==
    \/ \E system \in Systems : get_system_mac(system)
    \/ _get_mac_windows
    \/ _get_mac_linux
    \/ _get_mac_linux_sysfs
    \/ _get_mac_linux_arp
    \/ _get_mac_linux_proc
    \/ _get_mac_python_socket
    \/ _get_mac_python_ifconfig
    \/ _get_mac_proc_net_dev
    \/ _get_mac_macos
    \/ _get_mac_networkinterfaces
    \/ _get_mac_serverless_fallback

SpecCapture == Init /\ [][NextCapture]_vars

(***************************************************************************)
(* Properties.                                                             *)
(***************************************************************************)
GateDone(p) == procs[p].op = "gate" /\ procs[p].pc = "done"

\* the path starts with none of the SENSITIVE_ROUTES prefixes
NoPrefix(path) == \A route \in SENSITIVE_ROUTES : ~StartsWith(path, route)

\* C1: after any sequence of capture_and_bind_mac and deactivate_binding calls
\* that run one after the other with no store call failing, every user has at
\* most one row of mac_address_bindings with is_active = true.
C1_OneActivePerUser == \A u \in Users : Cardinality(ActiveIds(u)) <= 1

\* a user was bound, deactivated and bound again
C1_Witness ==
    /\ \A p \in Procs : Idle(p)
    /\ \E u \in Users :
         /\ Cardinality(ActiveIds(u)) = 1
         /\ \E i \in 1..Len(bindings) : bindings[i].user_id = u /\ ~bindings[i].is_active

\* C2: in every reachable state each user has at most one active binding row,
\* also when two capture_and_bind_mac calls for the same user interleave
\* between the get_active_binding check and the insert or update.
C2_OneActiveInterleaved ==
    \A u \in Users : \A i, j \in ActiveIds(u) : i = j

\* C3 as stated: a request for which VERCEL is set, or whose method is OPTIONS,
\* or whose path starts with no sensitive prefix, is passed downstream, and
\* verify_mac is never called: no audit entry, no change of a binding.
C3_Bypassed(p) ==
    /\ procs[p].pc \in {"call_next", "done"}
    /\ procs[p].pc = "done" => procs[p].ret = "ALLOW"
    /\ ~procs[p].called
    /\ Len(log) = procs[p].len0
    /\ bindings = procs[p].rows0

C3_BypassWhenVercelSet ==
    \A p \in Procs :
        (/\ procs[p].op = "gate"
         /\ \/ procs[p].req.vercel.set
            \/ procs[p].req.method = "OPTIONS"
            \/ NoPrefix(procs[p].req.path))
        => C3_Bypassed(p)

\* C3 as amended: the same, for a request for which VERCEL is set to a
\* non-empty value, or whose method is OPTIONS, or whose path starts with no
\* sensitive prefix.
C3_BypassWhenVercelNonEmpty ==
    \A p \in Procs :
        (/\ procs[p].op = "gate"
         /\ \/ (procs[p].req.vercel.set /\ procs[p].req.vercel.value # <<>>)
            \/ procs[p].req.method = "OPTIONS"
            \/ NoPrefix(procs[p].req.path))
        => C3_Bypassed(p)

\* a sensitive request of a bound user was passed downstream because of VERCEL
C3_Witness ==
    \E p \in Procs :
        /\ GateDone(p)
        /\ procs[p].req.vercel = EnvSet(<<"1">>)
        /\ procs[p].req.method = "GET"
        /\ ~NoPrefix(procs[p].req.path)
        /\ procs[p].ret = "ALLOW"
        /\ ActiveIds(GateUser(procs[p].req)) # {}

\* C4: a request to a sensitive path, with a resolved identity, whose freshly
\* captured identifier is the one of the user's active binding, is passed
\* downstream, and that binding's verification_count is one greater after the
\* request than before it (no other request running).
C4_Case(p) ==
    /\ GateDone(p)
    /\ procs[p].called
    /\ procs[p].binding.id # 0
    /\ Truthy(procs[p].mac)
    /\ procs[p].mac = procs[p].binding.mac_address

C4_MatchAllowsAndCounts ==
    \A p \in Procs :
        C4_Case(p) =>
            /\ procs[p].ret = "ALLOW"
            /\ procs[p].response = Downstream
            /\ bindings[procs[p].binding.id].verification_count =
                   procs[p].rows0[procs[p].binding.id].verification_count + 1

C4_Witness ==
    \E p \in Procs :
        /\ C4_Case(p)
        /\ ~NoPrefix(procs[p].req.path)
        /\ bindings[procs[p].binding.id].verification_count = 1

\* C5: a request to a sensitive path, with a resolved identity, whose captured
\* identifier is not the one of the user's active binding, is denied with
\* status 403, the binding's failed_verification_count goes up by one, and
\* exactly one entry, with verification_status "failed", is appended to
\* mac_verification_log.
C5_Case(p) ==
    /\ GateDone(p)
    /\ procs[p].called
    /\ procs[p].binding.id # 0
    /\ Truthy(procs[p].mac)
    /\ procs[p].mac # procs[p].binding.mac_address

C5_MismatchDeniesCountsAndLogs ==
    \A p \in Procs :
        C5_Case(p) =>
            /\ procs[p].ret = "DENY"
            /\ procs[p].response.status_code = 403
            /\ bindings[procs[p].binding.id].failed_verification_count =
                   procs[p].rows0[procs[p].binding.id].failed_verification_count + 1
            /\ Len(log) = procs[p].len0 + 1
            /\ log[Len(log)].verification_status = "failed"

C5_Witness ==
    \E p \in Procs :
        /\ C5_Case(p)
        /\ bindings[procs[p].binding.id].failed_verification_count = 1
        /\ Len(log) = 1

\* C6: when a step of verification fails unexpectedly during a sensitive
\* request with a resolved identity (the store call of get_active_binding
\* raising, or an exception inside verify_mac), the gate denies with the
\* service-error (5xx) response, not with the 403 response.
C6_FaultGivesServiceError ==
    \A p \in Procs :
        (GateDone(p) /\ procs[p].called /\ procs[p].fault)
        => /\ procs[p].ret = "DENY"
           /\ procs[p].response.status_code >= 500

\* C7: a request to a sensitive path from which no identity can be resolved
\* (no request.state.user_id and no decodable bearer credential with a
\* subject, or the resolver raising) is passed downstream without verify_mac
\* being called.
C7_Unresolved(req) ==
    /\ ~Truthy(req.state_user_id)
    /\ \/ req.authorization.raises
       \/ req.authorization.scheme # "Bearer"
       \/ ~req.authorization.decodes
       \/ ~Truthy(req.authorization.sub)

C7_Case(p) ==
    /\ procs[p].op = "gate"
    /\ ~Truthy(getenv(procs[p].req.vercel))
    /\ procs[p].req.method # "OPTIONS"
    /\ ~NoPrefix(procs[p].req.path)
    /\ C7_Unresolved(procs[p].req)

C7_NoIdentityAllows ==
    \A p \in Procs :
        C7_Case(p) =>
            /\ procs[p].pc \in {"call_next_in_try", "done"}
            /\ procs[p].pc = "done" => procs[p].ret = "ALLOW"
            /\ ~procs[p].called
            /\ Len(log) = procs[p].len0
            /\ bindings = procs[p].rows0

\* a credential that does not decode, naming a user who has an active binding
C7_Witness ==
    \E p \in Procs :
        /\ C7_Case(p)
        /\ procs[p].pc = "done"
        /\ procs[p].ret = "ALLOW"
        /\ procs[p].req.authorization = Bearer(FALSE, <<"u">>)
        /\ ActiveIds(<<"u">>) # {}

\* C8: the response for a denied verification is the same, status and body,
\* for every reason code (no_binding, capture_failed, mac_mismatch), and the
\* reason never appears in it.
Reasons == {"no_binding", "capture_failed", "mac_mismatch"}

C8_Denied(p) == GateDone(p) /\ procs[p].ret = "DENY" /\ procs[p].reason \in Reasons

C8_SameDenialForEveryReason ==
    \A p, q \in Procs :
        (C8_Denied(p) /\ C8_Denied(q))
        => /\ procs[p].response = procs[q].response
           /\ procs[p].response.detail \notin Reasons
           /\ procs[p].response.status_code = 403

C8_Witness ==
    \E p, q \in Procs :
        /\ C8_Denied(p) /\ C8_Denied(q)
        /\ procs[p].reason = "no_binding"
        /\ procs[q].reason = "mac_mismatch"

\* C9: MACAddressSniffer.verify_mac returns true exactly when the normalized
\* identifiers are equal and the digest recomputed for the current identifier,
\* the user id and the secret equals the stored digest; when the stored digest
\* was computed for (stored, u, s), a call that differs from it only in the
\* user id, or only in the secret, returns false.
C9_OneFieldDiffers ==
    /\ sniff.bound.mac = sniff.stored_mac
    /\ \/ sniff.bound.user_id # sniff.user_id /\ sniff.bound.secret = sniff.secret
       \/ sniff.bound.user_id = sniff.user_id /\ sniff.bound.secret # sniff.secret

C9_VerifyIffBothMatch ==
    sniff.returned =>
        /\ sniff.result <=>
              /\ Normalize(sniff.current_mac) = Normalize(sniff.stored_mac)
              /\ generate_checksum(sniff.current_mac, sniff.user_id, sniff.secret)
                     = sniff.stored_checksum
        /\ C9_OneFieldDiffers => ~sniff.result

\* the same identifier and secret, another user id
C9_Witness ==
    /\ sniff.returned
    /\ ~sniff.result
    /\ sniff.current_mac = sniff.stored_mac
    /\ sniff.bound.mac = sniff.stored_mac
    /\ sniff.bound.user_id # sniff.user_id
    /\ sniff.bound.secret = sniff.secret

\* C10: round trip: verifying m against (m, generate_checksum(m, u, s)) with
\* the same u and s succeeds; hence, once capture_and_bind_mac has stored a
\* binding for a user, a verify_mac for that user in which capture returns the
\* stored identifier succeeds.
C10_Case(p) ==
    /\ procs[p].op = "gate"
    /\ procs[p].pc \in {"update_count", "log", "call_next", "done"}
    /\ procs[p].binding.id # 0
    /\ Truthy(procs[p].mac)
    /\ procs[p].mac = procs[p].binding.mac_address

C10_RoundTrip ==
    /\ \A m \in Identifiers \cup SysMacs, u \in UserIds \cup Users,
          s \in Secrets \cup {secret_key} :
            Sniffer_verify_mac(m, m, generate_checksum(m, u, s), u, s)
    /\ \A p \in Procs : C10_Case(p) => procs[p].verified /\ procs[p].reason = "success"

C10_Witness ==
    \E p \in Procs :
        /\ C10_Case(p)
        /\ procs[p].pc = "done"
        /\ procs[p].verified
        /\ log # <<>> /\ log[Len(log)].verification_status = "success"

\* the user's active rows when dispatch began
ActiveIds0(p) ==
    {i \in 1..Len(procs[p].rows0) :
        procs[p].rows0[i].user_id = procs[p].user_id /\ procs[p].rows0[i].is_active}

\* C11: when the user has no active binding, MACManager.verify_mac returns
\* verified = false with reason "no_binding" and appends one audit entry whose
\* mac_address and binding_id are none, and changes no binding row.
C11_Case(p) == GateDone(p) /\ procs[p].called /\ ActiveIds0(p) = {}

C11_NoBindingLoggedOnce ==
    \A p \in Procs :
        C11_Case(p) =>
            /\ ~procs[p].verified
            /\ procs[p].reason = "no_binding"
            /\ Len(log) = procs[p].len0 + 1
            /\ log[Len(log)].user_id = procs[p].user_id
            /\ log[Len(log)].mac_address = None
            /\ log[Len(log)].binding_id = 0
            /\ bindings = procs[p].rows0

\* the other user has a binding; this one has none
C11_Witness ==
    \E p \in Procs :
        /\ C11_Case(p)
        /\ bindings # <<>>
        /\ Len(log) = 1
        /\ log[1].error_message = "No active binding found"

\* C12: every call of MACManager.verify_mac, whatever its outcome, appends
\* exactly one entry to mac_verification_log, and the entry's
\* verification_status is "success" exactly when the call returned
\* verified = true.
C12_EveryAttemptLogged ==
    \A p \in Procs :
        (/\ procs[p].op = "gate"
         /\ procs[p].called
         /\ procs[p].pc \in {"call_next", "done"})
        => /\ Len(log) = procs[p].len0 + 1
           /\ (log[Len(log)].verification_status = "success") = procs[p].verified

\* C13: a failure of the insert into mac_verification_log never changes the
\* outcome: verify_mac returns the verified and reason values it had reached
\* before the write, and the gate acts on them, whether the insert succeeds
\* or raises.
C13_LogFailureKeepsOutcome ==
    [][\A p \in Procs :
          (procs[p].pc = "log" /\ procs'[p].pc # "log")
          => /\ procs'[p].verified = procs[p].verified
             /\ procs'[p].reason = procs[p].reason
             /\ procs'[p].pc = IF procs[p].verified THEN "call_next" ELSE "done"
             /\ procs[p].reason = "no_binding" <=> procs[p].binding.id = 0
             /\ procs[p].reason = "success" <=> procs[p].verified]_vars

\* a verification succeeded although its log entry was not written
C13_Witness ==
    \E p \in Procs :
        /\ GateDone(p)
        /\ procs[p].called
        /\ procs[p].reason = "success"
        /\ procs[p].ret = "ALLOW"
        /\ Len(log) = procs[p].len0

\* C14: only MACManager.deactivate_binding changes a binding's is_active from
\* true to false: no step of verify_mac (success, mismatch, capture failure,
\* error) and no step of capture_and_bind_mac does.
C14_OnlyDeactivateDeactivates ==
    [][\A i \in 1..Len(bindings) :
          (bindings[i].is_active /\ ~bindings'[i].is_active)
          => \E p \in Procs :
                /\ Idle(p)
                /\ procs'[p].op = "deactivate"
                /\ procs'[p].binding.id = i]_vars

\* a verification of a bound user ended in an error and the binding is active
C14_Witness ==
    \E p \in Procs :
        /\ GateDone(p)
        /\ procs[p].reason \in {"verification_error", "capture_failed"}
        /\ procs[p].binding.id # 0
        /\ bindings[procs[p].binding.id].is_active
        /\ procs[p].response = VerificationFailed(procs[p].reason)

\* C15: capture_and_bind_mac is an upsert: when the user has an active binding
\* the number of rows is unchanged and that row keeps its id, user_id and
\* counters while its mac_address and mac_checksum become the captured
\* identifier and its checksum; when the user has none, exactly one new row,
\* with is_active = true, is inserted.
C15_Upsert ==
    [][\A p \in Procs :
          (procs[p].op = "capture" /\ procs[p].pc = "write" /\ procs'[p].ret = "binding")
          => LET u == procs[p].user_id
                 mac == procs[p].mac
                 checksum == generate_checksum(mac, u, secret_key)
             IN  IF ActiveIds(u) # {}
                 THEN \E i \in ActiveIds(u) :
                        /\ bindings' = [bindings EXCEPT ![i].mac_address = mac,
                                                        ![i].mac_checksum = checksum]
                        /\ procs'[p].binding.id = i
                 ELSE /\ bindings' = Append(bindings,
                            [user_id |-> u, mac_address |-> mac,
                             mac_checksum |-> checksum, is_active |-> TRUE,
                             verification_count |-> 0,
                             failed_verification_count |-> 0])
                      /\ procs'[p].binding.id = Len(bindings) + 1]_vars

\* a row verified once was bound again to another identifier
C15_Witness ==
    /\ Len(bindings) = 1
    /\ bindings[1].verification_count = 1
    /\ bindings[1].mac_address = <<"A", ":", "2">>
    /\ bindings[1].mac_checksum = generate_checksum(<<"A", ":", "2">>, bindings[1].user_id, secret_key)
    /\ \E p \in Procs : procs[p].op = "capture" /\ procs[p].pc = "done"

\* C16: no operation changes a binding's is_active from false to true: once
\* deactivate_binding(b) has completed, row b is inactive in every later
\* state (a later capture_and_bind_mac inserts a new row).
C16_DeactivatedStaysInactive ==
    [][\A i \in 1..Len(bindings) :
          ~bindings[i].is_active => ~bindings'[i].is_active]_vars


\* C17: MACAddressSniffer.get_system_mac never propagates an exception: on
\* every platform and for every combination of strategy failures (command
\* missing, timeout, parse failure, unexpected exception) it returns an
\* identifier or None.
C17_NeverRaises ==
    /\ capture.pc # "raised"
    /\ capture.pc = "returned" =>
          \/ capture.result = None
          \/ Len(capture.result) = 17 /\ capture.by = capture.tried[Len(capture.tried)]

\* every strategy of the Linux cascade failed, some by an exception, some by
\* finding no address, and the fallback raised too
C17_Witness ==
    /\ capture.pc = "returned"
    /\ capture.result = None
    /\ Len(capture.tried) = 8
    /\ \E i, j \in 1..Len(capture.stack) :
          capture.stack[i].in_try /\ ~capture.stack[j].in_try

\* C18: on Linux the strategies are tried in the order ip link, sysfs, arp
\* command, /proc/net/arp, socket ioctl, ifconfig, /proc/net/dev, environment
\* fingerprint; a strategy is attempted only after every earlier one failed,
\* none is attempted twice or after a success, and for every combination of
\* outcomes the cascade ends with the result of the first successful strategy
\* (of the terminal fallback if none).
LinuxOrder ==
    <<"_get_mac_linux", "_get_mac_linux_sysfs", "_get_mac_linux_arp",
      "_get_mac_linux_proc", "_get_mac_python_socket", "_get_mac_python_ifconfig",
      "_get_mac_proc_net_dev", "_get_mac_serverless_fallback">>

C18_LinuxOrderFirstSuccess ==
    capture.system = "Linux" =>
        /\ Len(capture.tried) <= Len(LinuxOrder)
        /\ capture.tried = SubSeq(LinuxOrder, 1, Len(capture.tried))
        /\ capture.pc \in {"attempt", "returned"}
        /\ capture.pc = "attempt" =>
              /\ Len(capture.tried) < Len(LinuxOrder)
              /\ capture.strategy = LinuxOrder[Len(capture.tried) + 1]
              /\ ENABLED NextCapture
        /\ capture.pc = "returned" =>
              /\ capture.by = capture.tried[Len(capture.tried)]
              /\ Truthy(capture.result) \/ Len(capture.tried) = Len(LinuxOrder)

\* four strategies failed and the socket ioctl gave the address
C18_Witness ==
    /\ capture.system = "Linux"
    /\ capture.pc = "returned"
    /\ capture.by = "_get_mac_python_socket"
    /\ Len(capture.tried) = 5
    /\ Truthy(capture.result)

\* C19: on every platform branch (Windows, Linux, Darwin, unknown platform)
\* each external command is bounded by a timeout: a command that never returns
\* is abandoned, the cascade goes on, and get_system_mac returns; it is never
\* left waiting with no step to take.
C19_NeverBlocked ==
    capture.pc \notin {"idle", "returned"} => ENABLED NextCapture

\* C20: every non-None value get_system_mac returns is in canonical form: six
\* two-digit upper-case hex octets joined by colons.
Canonical(mac) ==
    /\ Len(mac) = 17
    /\ \A i \in 1..17 :
          IF i % 3 = 0 THEN mac[i] = ":" ELSE mac[i] \in Digits \cup UpperHex

C20_CanonicalResult ==
    (capture.pc = "returned" /\ Truthy(capture.result)) => Canonical(capture.result)


\* C21: a device-binding failure never blocks registration or login:
\* capture_and_bind_mac returns a binding or None and never raises (capture
\* failure, store failure), and register/login return the token response in
\* both cases.
C21_Case(p) == procs[p].op = "capture" /\ procs[p].pc = "done"

C22_FaultLeavesRegistrySound ==
    \A p \in Procs :
        (procs[p].op = "capture" /\ procs[p].pc = "done")
        => /\ procs[p].ret = "binding" => ActiveIds(procs[p].user_id) = {procs[p].binding.id}
           /\ \A u \in Users : \A i \in ActiveIds(u), j \in ActiveIds(u) : i = j

\* C23: verification_count and failed_verification_count of every binding
\* are monotonic: no step lowers either counter, also when several verify_mac
\* calls for one user interleave between reading the binding and writing the
\* incremented counter.
C23_CountersMonotonic ==
    [][\A i \in 1..Len(bindings) :
          /\ bindings'[i].verification_count >= bindings[i].verification_count
          /\ bindings'[i].failed_verification_count >=
                 bindings[i].failed_verification_count]_vars


\* the triple the stored checksum was generated for, and the triple of the call
StoredTriple == <<sniff.bound.mac, sniff.bound.user_id, sniff.bound.secret>>
CallTriple == <<sniff.current_mac, sniff.user_id, sniff.secret>>

Checksum(t) == generate_checksum(t[1], t[2], t[3])

HasPipe(text) == \E i \in 1..Len(text) : text[i] = "|"

\* C24 as stated: generate_checksum is deterministic and depends only on
\* (mac, user_id, secret_key), and two triples that differ in any field give
\* different checksums (the hash taken as injective on its text).
C24_DifferentTriplesDifferentChecksums ==
    sniff.returned =>
        /\ StoredTriple = CallTriple => Checksum(StoredTriple) = Checksum(CallTriple)
        /\ StoredTriple # CallTriple => Checksum(StoredTriple) # Checksum(CallTriple)

\* C24 as amended: generate_checksum is deterministic, and two triples give
\* different checksums when they differ in exactly one field, or when neither
\* mac nor user_id of either triple contains the delimiter "|".
C24_DelimiterFreeTriplesDiffer ==
    sniff.returned =>
        /\ StoredTriple = CallTriple => Checksum(StoredTriple) = Checksum(CallTriple)
        /\ (/\ StoredTriple # CallTriple
            /\ \/ Cardinality({i \in 1..3 : StoredTriple[i] # CallTriple[i]}) = 1
               \/ \A i \in 1..2 : ~HasPipe(StoredTriple[i]) /\ ~HasPipe(CallTriple[i]))
           => Checksum(StoredTriple) # Checksum(CallTriple)

\* identifier and secret both differ, the user id holds no "|"
C24_Witness ==
    /\ sniff.returned
    /\ sniff.bound.mac # sniff.current_mac
    /\ sniff.bound.user_id = sniff.user_id
    /\ sniff.bound.secret # sniff.secret
    /\ ~HasPipe(sniff.user_id)
    /\ Checksum(StoredTriple) # Checksum(CallTriple)


\* C25: the identifier the terminal fallback returns is a function of the
\* environment fingerprint: it is the value computed from some environment,
\* every environment with the same fingerprint gives that value, and every
\* environment with a different fingerprint gives a different one
C25_Case ==
    /\ capture.pc = "returned"
    /\ capture.by = "_get_mac_serverless_fallback"
    /\ Truthy(capture.result)

C25_FallbackFunctionOfFingerprint ==
    C25_Case =>
        \E e \in FingerprintEnvs :
            /\ capture.result = ParseFingerprint(e)
            /\ \A e2 \in FingerprintEnvs :
                  (FingerprintBase(e2) = FingerprintBase(e))
                      <=> (ParseFingerprint(e2) = capture.result)

\* the fallback has returned the identifier of host g with function name f
C25_Witness ==
    /\ C25_Case
    /\ capture.result = ParseFingerprint([hostname |-> <<"g">>,
                                          vercel_deployment_id |-> <<>>,
                                          aws_lambda_function |-> <<"f">>])
    /\ capture.result # ParseFingerprint([hostname |-> <<"h">>,
                                          vercel_deployment_id |-> <<>>,
                                          aws_lambda_function |-> <<"f">>])

\* C26: in MACAddressSniffer.verify_mac, whenever the normalized current and
\* stored identifiers are equal, the digest recomputed from the current
\* identifier equals the one recomputed from the stored identifier (same
\* user and secret), so a call whose stored digest was made from the stored
\* form, for the same user and secret, verifies.
C26_Case ==
    /\ sniff.returned
    /\ Normalize(sniff.current_mac) = Normalize(sniff.stored_mac)

C26_NormalizedEqualSameDigest ==
    C26_Case =>
        /\ generate_checksum(sniff.current_mac, sniff.user_id, sniff.secret)
               = generate_checksum(sniff.stored_mac, sniff.user_id, sniff.secret)
        /\ sniff.bound = Bound(sniff.stored_mac, sniff.user_id, sniff.secret)
               => sniff.result

\* C27: neither the ip-link strategy nor the sysfs strategy returns the
\* address of the loopback interface; when lo is the only interface with a
\* well-formed address both fail and the cascade goes on to the next
\* strategy
C27_LoopbackNeverReturned ==
    (capture.pc = "returned"
        /\ capture.by \in {"_get_mac_linux", "_get_mac_linux_sysfs"})
    => capture.result # Upper(Loopback)

\* C28: deactivation forces re-authentication. Once deactivate_binding has
\* completed on a user's active binding the user has no active row; while
\* the user's rows are all inactive every MACManager.verify_mac for the user
\* answers verified = false, reason no_binding, and the gate denies; a user
\* gets an active row again only by a capture_and_bind_mac for that user
\* that returns a binding; and a row that verify_mac consults is active.
C28_Deactivated(p) ==
    /\ GateDone(p)
    /\ procs[p].called
    /\ ActiveIds0(p) = {}
    /\ \E i \in 1..Len(procs[p].rows0) : procs[p].rows0[i].user_id = procs[p].user_id

C28_VerificationAfterDeactivation ==
    \A p \in Procs :
        /\ C28_Deactivated(p) =>
              /\ ~procs[p].verified
              /\ procs[p].reason = "no_binding"
              /\ procs[p].binding.id = 0
              /\ procs[p].ret = "DENY"
              /\ procs[p].response.status_code = 403
        /\ (GateDone(p) /\ procs[p].called /\ procs[p].binding.id # 0) =>
              /\ procs[p].binding.id \in ActiveIds0(p)

C28_DeactivationStep ==
    \A i \in 1..Len(bindings) :
        (bindings[i].is_active /\ ~bindings'[i].is_active) =>
            \A j \in 1..Len(bindings') :
                bindings'[j].user_id = bindings[i].user_id => ~bindings'[j].is_active

C28_ActivationStep ==
    \A u \in Users :
        (/\ ActiveIds(u) = {}
         /\ \E j \in 1..Len(bindings') :
                bindings'[j].user_id = u /\ bindings'[j].is_active)
        => \E p \in Procs :
              /\ procs'[p].op = "capture"
              /\ procs'[p].pc = "done"
              /\ procs'[p].user_id = u
              /\ procs'[p].ret = "binding"

C28_DeactivationForcesReauthentication ==
    /\ []C28_VerificationAfterDeactivation
    /\ [][C28_DeactivationStep /\ C28_ActivationStep]_vars

\* user u was bound, the binding was deactivated, and a sensitive request of
\* u has been denied for want of a binding
C28_Witness ==
    \E p \in Procs :
        /\ C28_Deactivated(p)
        /\ procs[p].user_id = <<"u">>
        /\ Len(bindings) = 1
        /\ ~bindings[1].is_active
        /\ procs[p].ret = "DENY"
        /\ Len(log) = 1

\* C29: the gate answers with its own 403 or 500 response only for a request
\* it did not pass downstream: when call_next was invoked the caller gets
\* what the downstream handler answered or the exception it raised, never
\* the gate's "Verification service error"
C29_OwnResponseOnlyWithoutDownstream ==
    \A p \in Procs :
        (GateDone(p) /\ procs[p].ret = "ALLOW") =>
            /\ procs[p].response \in {Downstream, Propagated}
            /\ procs[p].response # ServiceError

\* C30: deactivate_binding(binding_id) changes nothing but the is_active
\* field of the row whose id is binding_id; for an id that matches no row
\* every row stays as it was and the call still returns True; it returns
\* False only when the store call raises, and then changes nothing; and a
\* second deactivation of the same id would change nothing more.
C30_Step(p) ==
    /\ procs[p].pc = "idle"
    /\ procs'[p].op = "deactivate"
    /\ procs'[p].pc = "done"

C30_OnlyIsActiveOfThatRow ==
    \A p \in Procs :
        C30_Step(p) =>
            LET binding_id == procs'[p].binding.id
            IN  /\ procs'[p].ret = (IF procs'[p].fault THEN "False" ELSE "True")
                /\ Len(bindings') = Len(bindings)
                /\ \A i \in 1..Len(bindings) :
                      /\ bindings'[i].user_id = bindings[i].user_id
                      /\ bindings'[i].mac_address = bindings[i].mac_address
                      /\ bindings'[i].mac_checksum = bindings[i].mac_checksum
                      /\ bindings'[i].verification_count = bindings[i].verification_count
                      /\ bindings'[i].failed_verification_count
                             = bindings[i].failed_verification_count
                      /\ bindings'[i].is_active =
                             IF i = binding_id /\ procs'[p].ret = "True" THEN FALSE
                             ELSE bindings[i].is_active
                /\ binding_id \notin 1..Len(bindings) => bindings' = bindings
                /\ procs'[p].ret = "False" => bindings' = bindings
                /\ log' = log
                /\ profiles' = profiles
                /\ procs'[p].ret = "True" =>
                      Deactivated(bindings', binding_id) = bindings'

C30_DeactivateFrame == [][C30_OnlyIsActiveOfThatRow]_vars

\* two users are bound and the binding of the first has been deactivated
C30_Witness ==
    \E p \in Procs :
        /\ procs[p].op = "deactivate"
        /\ procs[p].pc = "done"
        /\ procs[p].ret = "True"
        /\ procs[p].binding.id = 1
        /\ Len(bindings) = 2
        /\ ~bindings[1].is_active
        /\ bindings[2].is_active
====
